---- MODULE Spec2Model ----
(***************************************************************************)
(* Model of assemblerflow/generator/process.py: one process descriptor     *)
(* (class Process and its subclasses Status, Init and the catalog) as a    *)
(* state machine whose actions are the descriptor's methods.               *)
(*                                                                         *)
(* Python strings are TLA+ strings, str.format and str.join are string     *)
(* concatenation, Python lists are sequences and dicts are functions from  *)
(* keys to values.                                                         *)
(***************************************************************************)
EXTENDS Integers, Sequences, FiniteSets, TLC

VARIABLES
    cls,              \* the class the descriptor was constructed from
    template,         \* self.template
    input_type,       \* self.input_type
    pid,              \* self.pid
    lane,             \* self.lane
    input_channel,    \* self.input_channel
    output_channel,   \* self.output_channel
    status_channels,  \* self.status_channels
    status_strs,      \* self.status_strs
    forks,            \* self.forks
    main_forks,       \* self.main_forks
    context,          \* self._context: <<>> for None, <<d>> for the dict d
    last,             \* the last method call: its name, arguments and outcome
    completed,        \* names of the methods that returned normally so far
    nops,             \* number of method calls made on the descriptor
    pipeline          \* the steps the driver has finished wiring, in order

vars == <<cls, template, input_type, pid, lane, input_channel, output_channel,
          status_channels, status_strs, forks, main_forks, context, last,
          completed, nops, pipeline>>

-----------------------------------------------------------------------------
(* Bounds of the exploration *)

\* method calls made on one descriptor
MaxOps == 3
\* steps of the pipeline the driver wires
MaxSteps == 2

-----------------------------------------------------------------------------
(* Python values *)

\* None where a string is expected (self.input_channel = None, ...)
None == "<None>"

\* None where an integer is expected (self.pid = None)
NonePid == -1
\* self.lane = None; a lane is a positive integer once set
NoneLane == -1

\* self._context = None
NoneContext == <<>>

\* "{}".format(x) for a string or None
Str(x) == IF x = None THEN "None" ELSE x

\* "{}".format(p) for an integer or None
PidStr(p) == IF p = NonePid THEN "None" ELSE ToString(p)

\* the empty dict
EmptyDict == [k \in {} |-> ""]

\* {**a, **b}
Merge(a, b) ==
    [k \in (DOMAIN a) \cup (DOMAIN b) |-> IF k \in DOMAIN b THEN b[k] ELSE a[k]]

RECURSIVE JoinFrom(_, _, _)
JoinFrom(sep, list, i) ==
    IF i > Len(list) THEN ""
    ELSE sep \o list[i] \o JoinFrom(sep, list, i + 1)

\* sep.join(list), for a list of strings
Join(sep, list) ==
    IF Len(list) = 0 THEN "" ELSE list[1] \o JoinFrom(sep, list, 2)

\* source.startswith(prefix)
StartsWith(source, prefix) ==
    /\ Len(source) >= Len(prefix)
    /\ SubSeq(source, 1, Len(prefix)) = prefix

Range(list) == {list[i] : i \in DOMAIN list}

\* list(set(...)) left out: the list as the caller gave it
ListOfSet_NoDedup(channel_list) == {channel_list}

\* the lists list(set(channel_list)) can be: the distinct elements, any order
ListOfSet(channel_list) ==
    {l \in [1..Cardinality(Range(channel_list)) -> Range(channel_list)] :
        Range(l) = Range(channel_list)}

-----------------------------------------------------------------------------
(* The classes: Process, Status, Init and the 18 classes of the catalog *)

Catalog ==
    {"IntegrityCoverage", "SeqTyping", "PathoTyping", "CheckCoverage",
     "FastQC", "Trimmomatic", "FastqcTrimmomatic", "Skesa", "Spades",
     "ProcessSpades", "AssemblyMapping", "Pilon", "Mlst", "Abricate",
     "Prokka", "Chewbbaca", "TraceCompiler", "StatusCompiler"}

Classes == {"Process", "Status", "Init"} \cup Catalog

\* the subclasses of Status: they have set_status_channels
StatusClasses == {"Status", "StatusCompiler"}

\* the subclasses of Init: they have set_raw_inputs and set_secondary_inputs
InitClasses == {"Init"}

\* StatusCompiler.__init__ assigning an empty list, as Init.__init__ does
StatusChannelsOf_CompilerEmpty(c) ==
    CASE c \in {"Init", "SeqTyping", "PathoTyping", "StatusCompiler"} -> <<>>
      [] c = "FastQC" -> <<"STATUS_fastqc", "STATUS_report">>
      [] c = "FastqcTrimmomatic" ->
            <<"STATUS_fastqc", "STATUS_report", "STATUS_trim">>
      [] c = "AssemblyMapping" -> <<"STATUS_am", "STATUS_amp">>
      [] OTHER -> <<"STATUS">>

\* self.status_channels after construction: Process.__init__ sets ["STATUS"]
\* and a subclass's __init__ may assign another list afterwards
StatusChannelsOf(c) ==
    CASE c \in {"Init", "SeqTyping", "PathoTyping"} -> <<>>
      [] c = "FastQC" -> <<"STATUS_fastqc", "STATUS_report">>
      [] c = "FastqcTrimmomatic" ->
            <<"STATUS_fastqc", "STATUS_report", "STATUS_trim">>
      [] c = "AssemblyMapping" -> <<"STATUS_am", "STATUS_amp">>
      [] OTHER -> <<"STATUS">>

\* self.input_type after construction
InputTypeOf(c) ==
    CASE c \in {"IntegrityCoverage", "SeqTyping", "PathoTyping",
                "CheckCoverage", "FastQC", "Trimmomatic",
                "FastqcTrimmomatic", "Skesa", "Spades"} -> "fastq"
      [] c \in {"ProcessSpades", "AssemblyMapping", "Pilon", "Mlst",
                "Abricate", "Prokka", "Chewbbaca"} -> "assembly"
      [] OTHER -> None

\* Process.RAW_MAPPING
RAW_MAPPING ==
    [fastq |->
        [params |-> "fastq",
         channel |-> "IN_fastq_raw",
         channel_str |-> "IN_fastq_raw = Channel.fromFilePairs(params.fastq)"],
     assembly |->
        [params |-> "fasta",
         channel |-> "IN_fasta_raw",
         channel_str |-> "IN_fasta_raw = Channel.fromFilePairs(params.fasta)"]]

-----------------------------------------------------------------------------
(* The arguments the driver calls the methods with *)

\* the template identifier the driver constructs each class with: the file
\* <identifier>.nf exists in generator/templates
TemplateOf(c) ==
    CASE c = "IntegrityCoverage" -> "integrity_coverage"
      [] c = "SeqTyping" -> "seq_typing"
      [] c = "PathoTyping" -> "patho_typing"
      [] c = "CheckCoverage" -> "check_coverage"
      [] c = "FastQC" -> "fastqc"
      [] c = "Trimmomatic" -> "trimmomatic"
      [] c = "FastqcTrimmomatic" -> "fastqc_trimmomatic"
      [] c = "Skesa" -> "skesa"
      [] c = "Spades" -> "spades"
      [] c = "ProcessSpades" -> "process_spades"
      [] c = "AssemblyMapping" -> "assembly_mapping"
      [] c = "Pilon" -> "pilon"
      [] c = "Mlst" -> "mlst"
      [] c = "Abricate" -> "abricate"
      [] c = "Prokka" -> "prokka"
      [] c = "Chewbbaca" -> "chewbbaca"
      [] c = "TraceCompiler" -> "trace_compiler"
      [] c = "StatusCompiler" -> "status_compiler"
      [] c = "Status" -> "status_compiler"
      [] c = "Init" -> "init"
      [] c = "Process" -> "fastqc"

\* (input suffix, output suffix) of set_main_channel_names: a step reads the
\* suffix its predecessor writes
SuffixPairs == {<<"1", "2">>, <<"2", "3">>}

Lanes == {1}

\* keyword arguments of set_channels: none, the position index alone, or the
\* position index with one more value for the template
KwargsSet == {EmptyDict, [pid |-> 1], [pid |-> 2, sample_id |-> "s"]}

Sinks == {"fastqc_in_2", "spades_in_3"}

\* (source, channel_list) of set_secondary_channel
SecondaryCalls ==
    {<<"MAIN_2", <<"trim_in_8", "trim_in_8">>>>,
     <<"MAIN_2", <<"trim_in_8", "spades_in_9">>>>,
     <<"SIDE_phred", <<>>>>,
     <<"SIDE_phred", <<"trim_in_8">>>>,
     <<"SIDE_phred", <<"trim_in_8", "trim_in_8">>>>,
     <<"SIDE_phred", <<"trim_in_8", "spades_in_9">>>>}

StatusLists ==
    {<<>>, <<"STATUS_1">>, <<"STATUS_1", "STATUS_2">>,
     <<"STATUS_1", "STATUS_fastqc_2", "STATUS_report_2">>}

\* one record of raw_input, as the driver builds it from RAW_MAPPING
RawRecord(kind, raw_forks) ==
    [channel |-> RAW_MAPPING[kind].channel,
     channel_str |-> RAW_MAPPING[kind].channel_str,
     raw_forks |-> raw_forks]

\* raw_input.values() in the dict's iteration order
RawInputs ==
    {<<>>,
     <<RawRecord("fastq", <<"integrity_coverage_in_0">>)>>,
     <<RawRecord("fastq", <<"integrity_coverage_in_0", "seq_typing_in_0">>)>>,
     <<RawRecord("assembly", <<"abricate_in_0">>),
       RawRecord("fastq", <<"fastqc_in_0", "patho_typing_in_0">>)>>}

\* channel_dict.values() in the dict's iteration order
ChannelDicts ==
    {<<>>,
     <<"IN_genome_size = Channel.value(params.genomeSize)">>,
     <<"IN_genome_size = Channel.value(params.genomeSize)",
       "IN_adapters = Channel.value(params.adapters)">>}

-----------------------------------------------------------------------------
(* The strings the methods build *)

\* the underscore before the suffix left out of the format string
MainInputName_NoSeparator(t, input_suffix) ==
    Str(t) \o "_in" \o Str(input_suffix)

\* "{}_in_{}".format(self.template, input_suffix)
MainInputName(t, input_suffix) == Str(t) \o "_in_" \o Str(input_suffix)

\* the input format string pasted for the output name
MainOutputName_InputInfix(t, output_suffix) ==
    Str(t) \o "_in_" \o Str(output_suffix)

\* "{}_out_{}".format(self.template, output_suffix)
MainOutputName(t, output_suffix) == Str(t) \o "_out_" \o Str(output_suffix)

\* the position index left out of the status name
StatusStr_Unqualified(i, p) == Str(i)

\* "{}_{}".format(i, self.pid)
StatusStr(i, p) == Str(i) \o "_" \o PidStr(p)

\* "\n{}.set{{ {} }}\n".format(source, dest)
SetStatement(source, dest) ==
    "\n" \o Str(source) \o ".set{ " \o Str(dest) \o " }\n"

\* "\n{}.into{{ {} }}\n".format(source, ";".join(dests))
IntoStatement(source, dests) ==
    "\n" \o Str(source) \o ".into{ " \o Join(";", dests) \o " }\n"

\* the two operators exchanged
MainForkOperator_Exchanged(sinks) == IF Len(sinks) = 1 THEN "into" ELSE "set"

\* "set" if len(self.main_forks) == 1 else "into"
MainForkOperator(sinks) == IF Len(sinks) = 1 THEN "set" ELSE "into"

\* "\n{}.{}{{ {} }}\n".format(self.output_channel, operator,
\*                            ";".join(self.main_forks))
MainForkStatement(source, sinks) ==
    "\n" \o Str(source) \o "." \o MainForkOperator(sinks) \o "{ "
         \o Join(";", sinks) \o " }\n"

\* the statement set_secondary_channel and set_raw_inputs append for the
\* destinations dests: set{ } for one destination, into{ } otherwise
ForkStatement(source, dests) ==
    IF Len(dests) = 1 THEN SetStatement(source, dests[1])
    ELSE IntoStatement(source, dests)

\* the position index left out of the source
SecondarySource_Unqualified(source, p) == Str(source)

\* "{}_{}".format(source, self.pid)
SecondarySource(source, p) == Str(source) \o "_" \o PidStr(p)

\* the whole list joined, channel_list instead of channel_list[1:]
MixExpression_WholeList(channel_list) ==
    Str(channel_list[1]) \o ".mix(" \o Join(",", channel_list) \o ")"

\* "{}.mix({})".format(first_status, ",".join(channel_list[1:]))
MixExpression(channel_list) ==
    Str(channel_list[1]) \o ".mix(" \o Join(",", Tail(channel_list)) \o ")"

\* the value set_status_channels stores under "status_channels"
StatusChannelsValue(channel_list) ==
    IF Len(channel_list) = 1 THEN channel_list[1]
    ELSE MixExpression(channel_list)

\* [self.status_strs.append(...) for i in self.status_channels]
StatusStrsFor(channels, p) ==
    [i \in 1..Len(channels) |-> StatusStr(channels[i], p)]

\* the into{ } form for every record, whatever its number of targets
RawForkStatements_AlwaysInto(raw_input) ==
    [i \in 1..Len(raw_input) |->
        IntoStatement(raw_input[i].channel, raw_input[i].raw_forks)]

\* the statements set_raw_inputs appends, one per record, in order
RawForkStatements(raw_input) ==
    [i \in 1..Len(raw_input) |->
        ForkStatement(raw_input[i].channel, raw_input[i].raw_forks)]

\* primary_inputs in set_raw_inputs
PrimaryInputs(raw_input) ==
    [i \in 1..Len(raw_input) |-> raw_input[i].channel_str]

\* "self._context == {}": None passes the test
ContextNotSet_EmptyOnly(c) == c # NoneContext /\ c[1] = EmptyDict

\* "not self._context": None and the empty dict are both false
ContextNotSet(c) == c = NoneContext \/ c[1] = EmptyDict

-----------------------------------------------------------------------------
(* Construction *)

\* the identifiers t for which generator/templates/<t>.nf exists
TemplateFiles == {TemplateOf(c) : c \in Classes}

\* an identifier the templates directory has no file for
MissingIdentifiers == {"no_such_template"}

\* the existence check left out: every identifier is accepted
set_template_Unchecked(t) == "ok"

\* _set_template: raises when <t>.nf does not exist, else sets the path
set_template(t) == IF t \in TemplateFiles THEN "ok" ELSE "MissingTemplate"

\* the object at the point where _set_template raises: pid and template are
\* assigned, nothing else is; the exception leaves __init__ and the caller
\* gets no reference to it
Unconstructed(c, t) ==
    [cls |-> c,
     template |-> t,
     input_type |-> None,
     pid |-> NonePid,
     lane |-> NoneLane,
     input_channel |-> None,
     output_channel |-> None,
     status_channels |-> <<>>,
     status_strs |-> <<>>,
     forks |-> <<>>,
     main_forks |-> <<>>,
     context |-> NoneContext]

\* the fields after Process.__init__ and the subclass's own assignments
NewDescriptor(c, t) ==
    [cls |-> c,
     template |-> t,
     input_type |-> InputTypeOf(c),
     pid |-> NonePid,
     lane |-> NoneLane,
     input_channel |-> None,
     output_channel |-> None,
     status_channels |-> StatusChannelsOf(c),
     status_strs |-> <<>>,
     forks |-> <<>>,
     main_forks |-> <<>>,
     context |-> NoneContext]

Init ==
    /\ \E c \in Classes : \E t \in MissingIdentifiers \cup {TemplateOf(c)} :
          LET d == IF set_template(t) = "ok"
                   THEN NewDescriptor(c, t) ELSE Unconstructed(c, t)
          IN  /\ last = [op |-> "__init__", result |-> set_template(t)]
              /\ cls = d.cls
              /\ template = d.template
              /\ input_type = d.input_type
              /\ pid = d.pid
              /\ lane = d.lane
              /\ input_channel = d.input_channel
              /\ output_channel = d.output_channel
              /\ status_channels = d.status_channels
              /\ status_strs = d.status_strs
              /\ forks = d.forks
              /\ main_forks = d.main_forks
              /\ context = d.context
    /\ completed = {}
    /\ nops = 0
    /\ pipeline = <<>>

\* a descriptor exists: its construction did not raise
Constructed == ~(last.op = "__init__" /\ last.result # "ok")

\* a method call on the constructed descriptor: counted, and recorded with
\* its outcome
Call(record) ==
    /\ Constructed
    /\ nops < MaxOps
    /\ nops' = nops + 1
    /\ last' = record
    /\ completed' = IF record.result = "ok"
                    THEN completed \cup {record.op} ELSE completed
    /\ UNCHANGED <<cls, template, input_type, status_channels, pipeline>>

-----------------------------------------------------------------------------
(* The methods of Process *)

set_main_channel_names(input_suffix, output_suffix, l) ==
    /\ Call([op |-> "set_main_channel_names", result |-> "ok",
             input_suffix |-> input_suffix, output_suffix |-> output_suffix,
             lane |-> l])
    /\ input_channel' = MainInputName(template, input_suffix)
    /\ output_channel' = MainOutputName(template, output_suffix)
    /\ lane' = l
    /\ UNCHANGED <<pid, status_strs, forks, main_forks, context>>

\* the row of RAW_MAPPING returned alone, res left out of the merge
UserChannel_RowOnly ==
    IF input_type \in DOMAIN RAW_MAPPING
    THEN <<RAW_MAPPING[input_type]>>
    ELSE <<>>

\* returns the merged record, or None (no return statement is reached)
UserChannel ==
    IF input_type \in DOMAIN RAW_MAPPING
    THEN <<Merge([input_channel |-> input_channel], RAW_MAPPING[input_type])>>
    ELSE <<>>

get_user_channel ==
    /\ Call([op |-> "get_user_channel", result |-> "ok",
             returned |-> UserChannel])
    /\ UNCHANGED <<pid, lane, input_channel, output_channel, status_strs,
                   forks, main_forks, context>>

\* the template_str property; the rendering itself is jinja2's
template_str ==
    /\ Call([op |-> "template_str",
             result |-> IF ContextNotSet(context)
                        THEN "ContextNotSet" ELSE "ok"])
    /\ UNCHANGED <<pid, lane, input_channel, output_channel, status_strs,
                   forks, main_forks, context>>

\* self.forks after set_channels
ForksAfterSetChannels ==
    IF main_forks # <<>>
    THEN Append(forks, MainForkStatement(output_channel, main_forks))
    ELSE forks

set_channels(kwargs) ==
    /\ Call([op |-> "set_channels", result |-> "ok", kwargs |-> kwargs])
    /\ pid' = IF "pid" \in DOMAIN kwargs THEN kwargs["pid"] ELSE NonePid
    /\ status_strs' = status_strs \o StatusStrsFor(status_channels, pid')
    /\ forks' = ForksAfterSetChannels
    /\ context' = <<Merge(kwargs,
                          [input_channel |-> input_channel,
                           output_channel |-> output_channel,
                           template |-> template,
                           forks |-> Join("\n", forks')])>>
    /\ UNCHANGED <<lane, input_channel, output_channel, main_forks>>

update_main_forks(sink) ==
    /\ Call([op |-> "update_main_forks", result |-> "ok", sink |-> sink])
    /\ main_forks' = Append(main_forks, sink)
    /\ UNCHANGED <<pid, lane, input_channel, output_channel, status_strs,
                   forks, context>>

\* the attributes Process.__init__ and the methods assign; the descriptor has
\* no other (reading one raises AttributeError)
Attributes ==
    {"pid", "template", "_template_path", "input_type", "output_type",
     "ignore_type", "ignore_pid", "dependencies", "lane", "parent_lane",
     "input_channel", "output_channel", "input_user_channel", "link_start",
     "link_end", "status_channels", "status_strs", "forks", "main_forks",
     "secondary_inputs", "secondary_input_str", "_context"}

\* self.output_channel read in place of self._output_channel: the branch
\* completes, renaming the output channel and appending it to the caller's
\* list
secondary_main_OutputChannel(source, channel_list) ==
    /\ StartsWith(source, "MAIN")
    /\ IF context = NoneContext
       THEN /\ Call([op |-> "set_secondary_channel", result |-> "TypeError",
                     source |-> source, channel_list |-> channel_list,
                     caller_list |-> channel_list])
            /\ UNCHANGED <<forks, context>>
       ELSE /\ Call([op |-> "set_secondary_channel", result |-> "ok",
                     source |-> source, channel_list |-> channel_list,
                     caller_list |-> Append(channel_list, output_channel)])
            /\ \E deduplicated \in
                     ListOfSet(Append(channel_list, output_channel)) :
                  forks' = Append(forks,
                                  ForkStatement("_" \o Str(output_channel),
                                                deduplicated))
            /\ context' = <<Merge(context[1],
                                  [output_channel |->
                                      "_" \o Str(output_channel),
                                   forks |-> Join("\n", forks')])>>
    /\ UNCHANGED <<pid, lane, input_channel, output_channel, status_strs,
                   main_forks>>

\* the source starts with "MAIN": the right-hand side of the first assignment
\* reads self._output_channel before anything is written, and the append to
\* the caller's list (caller_list: that list after the call) is not reached
secondary_main(source, channel_list) ==
    /\ StartsWith(source, "MAIN")
    /\ "_output_channel" \notin Attributes
    /\ Call([op |-> "set_secondary_channel", result |-> "AttributeError",
             source |-> source, channel_list |-> channel_list,
             caller_list |-> channel_list])
    /\ UNCHANGED <<pid, lane, input_channel, output_channel, status_strs,
                   forks, main_forks, context>>

\* any other source: the statement is appended to self.forks, then the
\* context is rebuilt from self._context, which fails when it is None; the
\* deduplicated list is bound to the local name, the caller's list is not
\* written
secondary_side(source, channel_list) ==
    /\ ~StartsWith(source, "MAIN")
    /\ \E deduplicated \in ListOfSet(channel_list) :
          forks' = Append(forks,
                          ForkStatement(SecondarySource(source, pid),
                                        deduplicated))
    /\ IF context = NoneContext
       THEN /\ Call([op |-> "set_secondary_channel", result |-> "TypeError",
                     source |-> source, channel_list |-> channel_list,
                     caller_list |-> channel_list])
            /\ UNCHANGED context
       ELSE /\ Call([op |-> "set_secondary_channel", result |-> "ok",
                     source |-> source, channel_list |-> channel_list,
                     caller_list |-> channel_list])
            /\ context' = <<Merge(context[1],
                                  [forks |-> Join("\n", forks')])>>
    /\ UNCHANGED <<pid, lane, input_channel, output_channel, status_strs,
                   main_forks>>

set_secondary_channel(source, channel_list) ==
    \/ secondary_main(source, channel_list)
    \/ secondary_side(source, channel_list)

-----------------------------------------------------------------------------
(* The methods of Status *)

\* the key merged into the context there is, not put in its place
set_status_channels_Merging(channel_list) ==
    /\ cls \in StatusClasses
    /\ IF Len(channel_list) = 0
       THEN /\ Call([op |-> "set_status_channels", result |-> "IndexError",
                     channel_list |-> channel_list])
            /\ UNCHANGED context
       ELSE /\ Call([op |-> "set_status_channels", result |-> "ok",
                     channel_list |-> channel_list])
            /\ context' = <<Merge(IF context = NoneContext
                                  THEN EmptyDict ELSE context[1],
                                  [status_channels |->
                                      StatusChannelsValue(channel_list)])>>
    /\ UNCHANGED <<pid, lane, input_channel, output_channel, status_strs,
                   forks, main_forks>>

\* channel_list[0] of an empty list raises IndexError
set_status_channels(channel_list) ==
    /\ cls \in StatusClasses
    /\ IF Len(channel_list) = 0
       THEN /\ Call([op |-> "set_status_channels", result |-> "IndexError",
                     channel_list |-> channel_list])
            /\ UNCHANGED context
       ELSE /\ Call([op |-> "set_status_channels", result |-> "ok",
                     channel_list |-> channel_list])
            /\ context' = <<[status_channels |->
                                StatusChannelsValue(channel_list)]>>
    /\ UNCHANGED <<pid, lane, input_channel, output_channel, status_strs,
                   forks, main_forks>>

-----------------------------------------------------------------------------
(* The methods of Init *)

\* the loop appends to self.forks before self._context is read
set_raw_inputs(raw_input) ==
    /\ cls \in InitClasses
    /\ forks' = forks \o RawForkStatements(raw_input)
    /\ IF context = NoneContext
       THEN /\ Call([op |-> "set_raw_inputs", result |-> "TypeError",
                     raw_input |-> raw_input])
            /\ UNCHANGED context
       ELSE /\ Call([op |-> "set_raw_inputs", result |-> "ok",
                     raw_input |-> raw_input])
            /\ context' = <<Merge(context[1],
                                  [forks |-> Join("\n", forks'),
                                   main_inputs |->
                                      Join("\n", PrimaryInputs(raw_input))])>>
    /\ UNCHANGED <<pid, lane, input_channel, output_channel, status_strs,
                   main_forks>>

\* an absent context taken for an empty one
set_secondary_inputs_FromEmpty(channel_dict) ==
    /\ cls \in InitClasses
    /\ Call([op |-> "set_secondary_inputs", result |-> "ok",
             channel_dict |-> channel_dict])
    /\ context' = <<Merge(IF context = NoneContext
                          THEN EmptyDict ELSE context[1],
                          [secondary_inputs |-> Join("\n", channel_dict)])>>
    /\ UNCHANGED <<pid, lane, input_channel, output_channel, status_strs,
                   forks, main_forks>>

\* {**self._context, ...} raises TypeError when self._context is None
set_secondary_inputs(channel_dict) ==
    /\ cls \in InitClasses
    /\ IF context = NoneContext
       THEN /\ Call([op |-> "set_secondary_inputs", result |-> "TypeError",
                     channel_dict |-> channel_dict])
            /\ UNCHANGED context
       ELSE /\ Call([op |-> "set_secondary_inputs", result |-> "ok",
                     channel_dict |-> channel_dict])
            /\ context' = <<Merge(context[1],
                                  [secondary_inputs |->
                                      Join("\n", channel_dict)])>>
    /\ UNCHANGED <<pid, lane, input_channel, output_channel, status_strs,
                   forks, main_forks>>

-----------------------------------------------------------------------------
(* One descriptor, called by the driver in any order *)

Next ==
    \/ \E suffixes \in SuffixPairs, l \in Lanes :
          set_main_channel_names(suffixes[1], suffixes[2], l)
    \/ get_user_channel
    \/ template_str
    \/ \E kwargs \in KwargsSet : set_channels(kwargs)
    \/ \E sink \in Sinks : update_main_forks(sink)
    \/ \E call \in SecondaryCalls : set_secondary_channel(call[1], call[2])
    \/ \E channel_list \in StatusLists : set_status_channels(channel_list)
    \/ \E raw_input \in RawInputs : set_raw_inputs(raw_input)
    \/ \E channel_dict \in ChannelDicts : set_secondary_inputs(channel_dict)

Spec == Init /\ [][Next]_vars

-----------------------------------------------------------------------------
(* A pipeline: the driver names the main channels of one step after the    *)
(* other.  A finished step is recorded with the names it was given and the *)
(* suffixes they were made from, and the next descriptor is constructed.   *)

\* the classes of the steps the driver adds after the first
FollowingSteps == {"IntegrityCoverage", "FastQC", "Spades"}

NextStep ==
    /\ Len(pipeline) < MaxSteps
    /\ last.op = "set_main_channel_names"
    /\ pipeline' = Append(pipeline,
                          [template |-> template,
                           input_channel |-> input_channel,
                           output_channel |-> output_channel,
                           input_suffix |-> last.input_suffix,
                           output_suffix |-> last.output_suffix])
    /\ \E c \in FollowingSteps :
          LET d == NewDescriptor(c, TemplateOf(c))
          IN  /\ cls' = d.cls
              /\ template' = d.template
              /\ input_type' = d.input_type
              /\ pid' = d.pid
              /\ lane' = d.lane
              /\ input_channel' = d.input_channel
              /\ output_channel' = d.output_channel
              /\ status_channels' = d.status_channels
              /\ status_strs' = d.status_strs
              /\ forks' = d.forks
              /\ main_forks' = d.main_forks
              /\ context' = d.context
    /\ last' = [op |-> "__init__", result |-> "ok"]
    /\ completed' = {}
    /\ nops' = 0

NextPipeline ==
    \/ \E suffixes \in SuffixPairs, l \in Lanes :
          set_main_channel_names(suffixes[1], suffixes[2], l)
    \/ NextStep

SpecPipeline == Init /\ [][NextPipeline]_vars

-----------------------------------------------------------------------------
(* Reading a fork statement back: "\n<source>.<operator>{ <d1>;<d2> }\n" *)

RECURSIVE FindFrom(_, _, _)
\* the first index >= i at which sub occurs in s, 0 when there is none
FindFrom(s, sub, i) ==
    IF i + Len(sub) - 1 > Len(s) THEN 0
    ELSE IF SubSeq(s, i, i + Len(sub) - 1) = sub THEN i
    ELSE FindFrom(s, sub, i + 1)

RECURSIVE Split(_, _)
Split(s, sep) ==
    LET k == FindFrom(s, sep, 1)
    IN  IF k = 0 THEN <<s>>
        ELSE <<SubSeq(s, 1, k - 1)>>
                \o Split(SubSeq(s, k + Len(sep), Len(s)), sep)

IsStatement(stmt) ==
    /\ Len(stmt) >= 7
    /\ SubSeq(stmt, 1, 1) = "\n"
    /\ SubSeq(stmt, Len(stmt) - 2, Len(stmt)) = " }\n"
    /\ FindFrom(stmt, ".", 1) > 0
    /\ FindFrom(stmt, "{ ", FindFrom(stmt, ".", 1)) > 0

StmtSource(stmt) == SubSeq(stmt, 2, FindFrom(stmt, ".", 1) - 1)

StmtOperator(stmt) ==
    LET dot == FindFrom(stmt, ".", 1)
    IN  SubSeq(stmt, dot + 1, FindFrom(stmt, "{ ", dot) - 1)

StmtDests(stmt) ==
    LET inner == SubSeq(stmt, FindFrom(stmt, "{ ", 1) + 2, Len(stmt) - 3)
    IN  IF inner = "" THEN <<>> ELSE Split(inner, ";")

NoDuplicates(list) ==
    \A i, j \in DOMAIN list : list[i] = list[j] => i = j

\* "set" for one destination, "into" otherwise
FormFor(n) == IF n = 1 THEN "set" ELSE "into"

\* this step is a call of the method op
Called(op) == nops' = nops + 1 /\ last'.op = op

\* the statements a step appended to self.forks
Appended == SubSeq(forks', Len(forks) + 1, Len(forks'))

OnlyAppends == Len(forks') >= Len(forks) /\ SubSeq(forks', 1, Len(forks)) = forks

-----------------------------------------------------------------------------
(* Forking the main channel *)

\* C1: set_secondary_channel with a source beginning with "MAIN", on a
\* descriptor whose context set_channels established and whose output
\* channel is O, completes, stores "_O" under the context's output_channel,
\* uses "_O" as the source of the appended statement and forks it into
\* exactly the distinct destinations of the caller plus O.
C1_MainForkRenamesOutput ==
    ( /\ last.op = "set_secondary_channel"
      /\ StartsWith(last.source, "MAIN")
      /\ "set_channels" \in completed
      /\ context # NoneContext
      /\ "output_channel" \in DOMAIN context[1]
      /\ output_channel # None
      /\ context[1]["output_channel"] \in
            {output_channel, "_" \o output_channel} )
    =>
    ( /\ last.result = "ok"
      /\ context[1]["output_channel"] = "_" \o Str(output_channel)
      /\ forks # <<>>
      /\ IsStatement(forks[Len(forks)])
      /\ StmtSource(forks[Len(forks)]) = "_" \o Str(output_channel)
      /\ NoDuplicates(StmtDests(forks[Len(forks)]))
      /\ Range(StmtDests(forks[Len(forks)]))
            = Range(last.channel_list) \cup {Str(output_channel)} )

-----------------------------------------------------------------------------
(* Main channel names of consecutive steps *)

\* steps n and n+1 were named with matching suffixes
Matching(n) == pipeline[n].output_suffix = pipeline[n + 1].input_suffix

-----------------------------------------------------------------------------
(* set_channels *)

\* C3: set_channels appends a statement iff main_forks is non-empty; the
\* statement forks the current output channel, with set{ } for one sink and
\* into{ } for more, into the sinks in the order update_main_forks was
\* called with them; update_main_forks appends its sink to main_forks.
C3_BroadcastFork ==
    [][ /\ Called("update_main_forks") =>
            main_forks' = Append(main_forks, last'.sink)
        /\ Called("set_channels") =>
            IF main_forks = <<>> THEN forks' = forks
            ELSE /\ OnlyAppends
                 /\ Len(Appended) = 1
                 /\ IsStatement(Appended[1])
                 /\ StmtSource(Appended[1]) = Str(output_channel)
                 /\ StmtOperator(Appended[1]) = FormFor(Len(main_forks))
                 /\ StmtDests(Appended[1]) = main_forks ]_vars

\* set_channels after two update_main_forks calls: the into{ } form
C3_Witness ==
    /\ last.op = "set_channels"
    /\ main_forks = <<"spades_in_3", "fastqc_in_2">>
    /\ forks = <<"\nNone.into{ spades_in_3;fastqc_in_2 }\n">>

\* C4: the first set_channels call, with position index p, makes status_strs
\* exactly the names of status_channels each followed by "_p", in order,
\* and records p as pid.
C4_FirstSetChannels ==
    [][ ( /\ Called("set_channels")
          /\ "set_channels" \notin completed
          /\ "pid" \in DOMAIN last'.kwargs )
        =>
        ( /\ pid' = last'.kwargs["pid"]
          /\ status_strs' =
                [i \in 1..Len(status_channels) |->
                    status_channels[i] \o "_" \o ToString(last'.kwargs["pid"])]
          /\ (status_channels = <<"STATUS">> /\ pid' = 1
                => status_strs' = <<"STATUS_1">>)
          /\ (cls = "FastQC" /\ pid' = 2
                => status_strs' = <<"STATUS_fastqc_2", "STATUS_report_2">>) )
      ]_vars

\* FastQC after its first set_channels, at position 2
C4_Witness ==
    /\ cls = "FastQC"
    /\ last.op = "set_channels"
    /\ pid = 2
    /\ status_strs = <<"STATUS_fastqc_2", "STATUS_report_2">>

-----------------------------------------------------------------------------
(* set_secondary_channel from a side channel *)

\* C5: with a source that does not begin with "MAIN", an established
\* context and position index p, set_secondary_channel appends exactly one
\* statement whose source is "<source>_<p>" (set{ } for one distinct
\* destination, into{ } otherwise), sets the context's forks to the
\* newline-join of the fork list and keeps its input_channel and
\* output_channel.
C5_SideChannelFork ==
    [][ ( /\ Called("set_secondary_channel")
          /\ ~StartsWith(last'.source, "MAIN")
          /\ context # NoneContext )
        =>
        ( /\ last'.result = "ok"
          /\ OnlyAppends
          /\ Len(Appended) = 1
          /\ IsStatement(Appended[1])
          /\ StmtSource(Appended[1]) = last'.source \o "_" \o PidStr(pid)
          /\ StmtOperator(Appended[1])
                = FormFor(Cardinality(Range(last'.channel_list)))
          /\ Range(StmtDests(Appended[1])) = Range(last'.channel_list)
          /\ context'[1]["forks"] = Join("\n", forks')
          /\ DOMAIN context'[1] = DOMAIN context[1] \cup {"forks"}
          /\ \A k \in DOMAIN context[1] \ {"forks"} :
                context'[1][k] = context[1][k] ) ]_vars

\* SIDE_phred forked into one destination at position 1
C5_Witness ==
    /\ last.op = "set_secondary_channel"
    /\ last.result = "ok"
    /\ last.source = "SIDE_phred"
    /\ pid = 1
    /\ forks = <<"\nSIDE_phred_1.set{ trim_in_8 }\n">>
    /\ context[1]["forks"] = "\nSIDE_phred_1.set{ trim_in_8 }\n"
    /\ "output_channel" \in DOMAIN context[1]
    /\ context[1]["output_channel"] = "fastqc_out_2"

\* C6: whatever the destination list, the statement set_secondary_channel
\* emits names each distinct destination exactly once and no other, and is
\* the set{ } form exactly when there is one distinct destination.
C6_Deduplication ==
    ( /\ last.op = "set_secondary_channel"
      /\ last.result # "AttributeError" )
    =>
    ( /\ forks # <<>>
      /\ IsStatement(forks[Len(forks)])
      /\ NoDuplicates(StmtDests(forks[Len(forks)]))
      /\ Range(StmtDests(forks[Len(forks)])) = Range(last.channel_list)
      /\ (StmtOperator(forks[Len(forks)]) = "set"
            <=> Cardinality(Range(last.channel_list)) = 1)
      /\ (StmtOperator(forks[Len(forks)]) = "into"
            <=> Cardinality(Range(last.channel_list)) # 1)
      /\ (last.channel_list = <<"trim_in_8", "trim_in_8">>
            => /\ StmtOperator(forks[Len(forks)]) = "set"
               /\ StmtDests(forks[Len(forks)]) = <<"trim_in_8">>) )

\* the same destination twice: one set{ } statement naming it once
C6_Witness ==
    /\ last.op = "set_secondary_channel"
    /\ last.result = "ok"
    /\ last.channel_list = <<"trim_in_8", "trim_in_8">>
    /\ forks = <<"\nSIDE_phred_2.set{ trim_in_8 }\n">>

-----------------------------------------------------------------------------
(* The Status Aggregator *)

\* C7: set_status_channels with one name stores that name under
\* status_channels; with n >= 2 names it stores "<first>.mix(<rest>)", the
\* names after the first joined by "," in the order given.
C7_StatusChannels ==
    ( /\ last.op = "set_status_channels"
      /\ Len(last.channel_list) >= 1 )
    =>
    ( /\ last.result = "ok"
      /\ context # NoneContext
      /\ "status_channels" \in DOMAIN context[1]
      /\ LET names == last.channel_list
             value == context[1]["status_channels"]
         IN  /\ Len(names) = 1 => value = names[1]
             /\ Len(names) >= 2 =>
                  /\ SubSeq(value, 1, Len(names[1]) + 5) = names[1] \o ".mix("
                  /\ SubSeq(value, Len(value), Len(value)) = ")"
                  /\ Split(SubSeq(value, Len(names[1]) + 6, Len(value) - 1),
                           ",") = Tail(names)
             /\ names = <<"STATUS_1">> => value = "STATUS_1"
             /\ names = <<"STATUS_1", "STATUS_fastqc_2", "STATUS_report_2">>
                  => value = "STATUS_1.mix(STATUS_fastqc_2,STATUS_report_2)" )

\* three names mixed into one expression
C7_Witness ==
    /\ last.op = "set_status_channels"
    /\ last.channel_list = <<"STATUS_1", "STATUS_fastqc_2", "STATUS_report_2">>
    /\ context # NoneContext
    /\ context[1] =
          [status_channels |-> "STATUS_1.mix(STATUS_fastqc_2,STATUS_report_2)"]

-----------------------------------------------------------------------------
(* Rendering *)

\* the methods that build the context
ContextPopulating ==
    {"set_channels", "set_status_channels", "set_raw_inputs",
     "set_secondary_inputs"}

\* C8: template_str fails with the context-not-set error whenever none of
\* the methods that build the context has completed since construction,
\* whatever other methods were called, and never once set_channels has
\* completed.
C8_ContextNotSet ==
    last.op = "template_str" =>
        /\ completed \cap ContextPopulating = {}
              => last.result = "ContextNotSet"
        /\ "set_channels" \in completed => last.result # "ContextNotSet"

\* rendering refused after the channel names and a sink were set
C8_Witness ==
    /\ last.op = "template_str"
    /\ last.result = "ContextNotSet"
    /\ completed = {"set_main_channel_names", "update_main_forks"}

-----------------------------------------------------------------------------
(* The Entry Point *)

\* C9: set_raw_inputs on a descriptor whose context exists appends, for
\* every record in iteration order, one statement forking the record's
\* channel into its raw_forks (set{ } for exactly one target, into{ }
\* otherwise), stores the newline-join of the records' channel_str under
\* main_inputs and the newline-join of the fork list under forks, and keeps
\* every other key of the context.
C9_RawInputs ==
    [][ ( /\ Called("set_raw_inputs")
          /\ context # NoneContext )
        =>
        ( /\ last'.result = "ok"
          /\ OnlyAppends
          /\ Len(Appended) = Len(last'.raw_input)
          /\ \A i \in 1..Len(last'.raw_input) :
                /\ IsStatement(Appended[i])
                /\ StmtSource(Appended[i]) = last'.raw_input[i].channel
                /\ StmtOperator(Appended[i])
                      = FormFor(Len(last'.raw_input[i].raw_forks))
                /\ StmtDests(Appended[i]) = last'.raw_input[i].raw_forks
          /\ context'[1]["forks"] = Join("\n", forks')
          /\ context'[1]["main_inputs"] =
                Join("\n", [i \in 1..Len(last'.raw_input) |->
                               last'.raw_input[i].channel_str])
          /\ DOMAIN context'[1]
                = DOMAIN context[1] \cup {"forks", "main_inputs"}
          /\ \A k \in DOMAIN context[1] \ {"forks", "main_inputs"} :
                context'[1][k] = context[1][k] ) ]_vars

\* two records: a set{ } statement, then an into{ } statement
C9_Witness ==
    /\ cls = "Init"
    /\ last.op = "set_raw_inputs"
    /\ last.result = "ok"
    /\ forks = <<"\nIN_fasta_raw.set{ abricate_in_0 }\n",
                 "\nIN_fastq_raw.into{ fastqc_in_0;patho_typing_in_0 }\n">>
    /\ context[1]["main_inputs"] =
          "IN_fasta_raw = Channel.fromFilePairs(params.fasta)\n"
             \o "IN_fastq_raw = Channel.fromFilePairs(params.fastq)"
    /\ "pid" \in DOMAIN context[1]

-----------------------------------------------------------------------------
(* Status channels of the catalog *)

\* C10 as stated: StatusCompiler has an empty status-channel list, and
\* set_channels adds nothing to its status-string list.
C10_StatusCompilerEmitsNone ==
    (cls = "StatusCompiler" /\ "set_channels" \in completed)
        => (status_channels = <<>> /\ status_strs = <<>>)

\* the status names of each row of the catalog, StatusCompiler's being the
\* default of the base class
RowStatus(c) ==
    CASE c = "SeqTyping" -> <<>>
      [] c = "PathoTyping" -> <<>>
      [] c = "Init" -> <<>>
      [] c = "FastQC" -> <<"STATUS_fastqc", "STATUS_report">>
      [] c = "FastqcTrimmomatic" ->
            <<"STATUS_fastqc", "STATUS_report", "STATUS_trim">>
      [] c = "AssemblyMapping" -> <<"STATUS_am", "STATUS_amp">>
      [] c \in {"IntegrityCoverage", "CheckCoverage", "Trimmomatic", "Skesa",
                "Spades", "ProcessSpades", "Pilon", "Mlst", "Abricate",
                "Prokka", "Chewbbaca", "TraceCompiler", "StatusCompiler",
                "Process", "Status"} -> <<"STATUS">>

\* C10 amended: StatusCompiler keeps the default list ["STATUS"], so a
\* set_channels call on it adds "STATUS_<pid>"; only SeqTyping, PathoTyping
\* and Init have an empty list and add nothing; every descriptor's
\* set_channels adds the position-qualified names of its catalog row.
C10_StatusNamesOfCatalog ==
    [][ Called("set_channels") =>
          /\ status_channels = RowStatus(cls)
          /\ Len(status_strs') = Len(status_strs) + Len(RowStatus(cls))
          /\ \A i \in 1..Len(RowStatus(cls)) :
                status_strs'[Len(status_strs) + i]
                   = RowStatus(cls)[i] \o "_" \o PidStr(pid')
          /\ (status_strs' = status_strs
                <=> cls \in {"SeqTyping", "PathoTyping", "Init"}) ]_vars

\* StatusCompiler after set_channels at position 1
C10_Witness ==
    /\ cls = "StatusCompiler"
    /\ last.op = "set_channels"
    /\ status_channels = <<"STATUS">>
    /\ status_strs = <<"STATUS_1">>

-----------------------------------------------------------------------------
(* get_user_channel and set_main_channel_names *)

\* the descriptor's fields
Fields ==
    <<cls, template, input_type, pid, lane, input_channel, output_channel,
      status_channels, status_strs, forks, main_forks, context>>

C12_MainChannelNames ==
    [][ Called("set_main_channel_names") =>
          /\ last'.result = "ok"
          /\ input_channel' = template \o "_in_" \o last'.input_suffix
          /\ output_channel' = template \o "_out_" \o last'.output_suffix
          /\ lane' = last'.lane
          /\ (template = "fastqc" /\ last'.input_suffix = "2"
                /\ last'.output_suffix = "3")
                => (input_channel' = "fastqc_in_2"
                      /\ output_channel' = "fastqc_out_3")
          /\ UNCHANGED <<cls, template, input_type, pid, status_channels,
                         status_strs, forks, main_forks, context>> ]_vars

\* the names set on a descriptor that already has forks and a context
C12_Witness ==
    /\ last.op = "set_main_channel_names"
    /\ template = "fastqc"
    /\ input_channel = "fastqc_in_2"
    /\ output_channel = "fastqc_out_3"
    /\ lane = 1
    /\ pid = 1
    /\ main_forks # <<>>
    /\ context # NoneContext

-----------------------------------------------------------------------------
(* Construction and the template file *)

\* the classes of the catalog that assign their own status-channel list
Overriding ==
    {"SeqTyping", "PathoTyping", "Init", "FastQC", "FastqcTrimmomatic",
     "AssemblyMapping"}

\* C13: constructing a descriptor with a template identifier that has no
\* file <identifier>.nf fails with the missing-template exception and leaves
\* no descriptor to call a method on; with an identifier that has a file it
\* succeeds with status_channels ["STATUS"] unless the class overrides it,
\* empty forks, main_forks and status_strs, and no channel names, pid or
\* context.
C13_Construction ==
    /\ last.result = "MissingTemplate" =>
          (last.op = "__init__" /\ nops = 0 /\ ~ENABLED Next)
    /\ last.op = "__init__" =>
          /\ template \in MissingIdentifiers =>
                (last.result = "MissingTemplate" /\ ~Constructed)
          /\ template \notin MissingIdentifiers =>
                /\ last.result = "ok"
                /\ Constructed
                /\ cls \notin Overriding => status_channels = <<"STATUS">>
                /\ cls \in Overriding => status_channels = RowStatus(cls)
                /\ forks = <<>>
                /\ main_forks = <<>>
                /\ status_strs = <<>>
                /\ input_channel = None
                /\ output_channel = None
                /\ pid = NonePid
                /\ context = NoneContext

\* FastQC constructed with an identifier that has no template file
C13_Witness ==
    /\ cls = "FastQC"
    /\ template = "no_such_template"
    /\ last.op = "__init__"
    /\ last.result = "MissingTemplate"

-----------------------------------------------------------------------------
(* The Entry Point before set_channels *)

\* C14 as stated: set_raw_inputs and set_secondary_inputs, called on an Init
\* descriptor on which set_channels was never called, complete and leave a
\* context with forks and main_inputs, respectively secondary_inputs.
C14_InitPopulatesContext ==
    (cls \in InitClasses /\ "set_channels" \notin completed) =>
        /\ last.op = "set_raw_inputs" =>
              /\ last.result = "ok"
              /\ context # NoneContext
              /\ {"forks", "main_inputs"} \subseteq DOMAIN context[1]
        /\ last.op = "set_secondary_inputs" =>
              /\ last.result = "ok"
              /\ context # NoneContext
              /\ "secondary_inputs" \in DOMAIN context[1]

\* C14 amended: set_raw_inputs and set_secondary_inputs add to the context
\* there is. On an Init descriptor on which set_channels never completed
\* each fails with a TypeError and the context stays absent, so template_str
\* still fails with the context-not-set error; once set_channels has
\* completed each completes and the context has forks and main_inputs,
\* respectively secondary_inputs.
C14_InitNeedsContext ==
    cls \in InitClasses =>
        /\ (last.op \in {"set_raw_inputs", "set_secondary_inputs"}
              /\ "set_channels" \notin completed)
              => (last.result = "TypeError" /\ context = NoneContext)
        /\ (last.op = "template_str" /\ "set_channels" \notin completed)
              => last.result = "ContextNotSet"
        /\ "set_channels" \notin completed
              => completed \cap {"set_raw_inputs", "set_secondary_inputs"}
                    = {}
        /\ (last.op = "set_raw_inputs" /\ "set_channels" \in completed)
              => /\ last.result = "ok"
                 /\ context # NoneContext
                 /\ {"forks", "main_inputs"} \subseteq DOMAIN context[1]
        /\ (last.op = "set_secondary_inputs" /\ "set_channels" \in completed)
              => /\ last.result = "ok"
                 /\ context # NoneContext
                 /\ "secondary_inputs" \in DOMAIN context[1]

\* set_secondary_inputs refused on a fresh Init descriptor
C14_Witness ==
    /\ cls = "Init"
    /\ nops = 1
    /\ last.op = "set_secondary_inputs"
    /\ last.channel_dict # <<>>
    /\ last.result = "TypeError"
    /\ context = NoneContext

-----------------------------------------------------------------------------
(* Forking the main channel *)

-----------------------------------------------------------------------------
(* The status strings over several set_channels calls *)

-----------------------------------------------------------------------------
(* The context of the Status Aggregator *)

\* C17: set_status_channels puts a new context in place of the old one:
\* after it completes the context has the one key status_channels, whatever
\* keys set_channels stored before; forks, status_strs, pid and the channel
\* names are unchanged.
C17_StatusContextReplaced ==
    [][ (Called("set_status_channels") /\ last'.result = "ok")
          => /\ context' # NoneContext
             /\ DOMAIN context'[1] = {"status_channels"}
             /\ UNCHANGED <<forks, main_forks, status_strs, pid, lane,
                            input_channel, output_channel, cls, template,
                            input_type, status_channels>> ]_vars

\* StatusCompiler given its channels after set_channels at position 1
C17_Witness ==
    /\ cls = "StatusCompiler"
    /\ last.op = "set_status_channels"
    /\ last.result = "ok"
    /\ "set_channels" \in completed
    /\ pid = 1
    /\ status_strs = <<"STATUS_1">>
    /\ context # NoneContext
    /\ DOMAIN context[1] = {"status_channels"}
    /\ context[1]["status_channels"] = "STATUS_1.mix(STATUS_2)"

====
